---- MODULE Spec2Model ----
(***************************************************************************)
(* Model of app/parsers/harmony.py: the HarmonyParser streaming extraction *)
(* state machine (parse_streaming, handle_parse_streaming_end) and the     *)
(* one-shot parse.                                                         *)
(*                                                                         *)
(* Text is modelled by TLA+ strings; Python's None is the empty set and a  *)
(* present value v is the singleton {v}.  The tokenizer and the            *)
(* incremental decoder belong to the openai_harmony library: the caller of *)
(* an action chooses, with the chunk, what the decoder reports for each of *)
(* its tokens (last_content_delta, current_channel, current_recipient).    *)
(***************************************************************************)
EXTENDS Integers, Sequences, FiniteSets

VARIABLES
    state,                  \* self.state
    arguments_buffer,       \* self.arguments_buffer, a list of fragments
    function_name_buffer,   \* self.function_name_buffer
    op,                     \* the method called last
    ret,                    \* what that call returned
    pre,                    \* the stream state that call started from
    inp,                    \* summary of the input that call was given
    emitted,                \* number of calls that returned a tool_calls entry
    completed,              \* some call has reported completion
    tool                    \* the first tool-call delta fed and the deltas since

vars == <<state, arguments_buffer, function_name_buffer, op, ret, pre, inp,
          emitted, completed, tool>>

-----------------------------------------------------------------------------
(* Bounds *)

MaxChunkTokens == 2   \* text pieces per chunk in front of / behind a marker
MaxBuffered == 3      \* characters of argument text a stream accumulates

-----------------------------------------------------------------------------
(* Python values *)

None == {}
Some(v) == {v}
TheValue(o) == CHOOSE v \in o : TRUE

\* x or ""
OrEmpty(o) == IF o = None THEN "" ELSE TheValue(o)

\* s or None
OrNone(s) == IF s = "" THEN None ELSE Some(s)

\* sub in s
Contains(s, sub) ==
    \E i \in 1..(Len(s) - Len(sub) + 1) : SubSeq(s, i, i + Len(sub) - 1) = sub

\* s.find(sub), 0-based, -1 when absent
Find(s, sub) ==
    IF Contains(s, sub)
    THEN (CHOOSE i \in 1..(Len(s) - Len(sub) + 1) :
            /\ SubSeq(s, i, i + Len(sub) - 1) = sub
            /\ \A j \in 1..(i - 1) : SubSeq(s, j, j + Len(sub) - 1) # sub) - 1
    ELSE -1

\* s[:n]
Prefix(s, n) == SubSeq(s, 1, IF n < Len(s) THEN n ELSE Len(s))

\* s[n:]
Suffix(s, n) == SubSeq(s, n + 1, Len(s))

RECURSIVE Replace(_, _, _)
\* s.replace(old, new), old non-empty
Replace(s, old, new) ==
    IF Len(s) < Len(old) THEN s
    ELSE IF Prefix(s, Len(old)) = old
         THEN new \o Replace(Suffix(s, Len(old)), old, new)
         ELSE Prefix(s, 1) \o Replace(Suffix(s, 1), old, new)

RECURSIVE Join(_)
\* "".join(parts)
Join(parts) == IF parts = <<>> THEN "" ELSE Head(parts) \o Join(Tail(parts))

-----------------------------------------------------------------------------
(* Constants of the parser *)

ANALYSIS == "analysis"
COMMENTARY == "commentary"
FINAL == "final"

NORMAL == "normal"
FOUND_ARGUMENTS == "found_arguments"
END_STREAM == "end_stream"

end_tool_chunk == "<|call|>"
FunctionsPrefix == "functions."

-----------------------------------------------------------------------------
(* The tokenizer and the decoder *)

RECURSIVE Encode(_)
\* encoding.encode(text, allowed_special="all"): the marker is one special
\* token, every other character of the modelled texts is one token
Encode(text) ==
    IF text = "" THEN <<>>
    ELSE IF Prefix(text, Len(end_tool_chunk)) = end_tool_chunk
         THEN <<end_tool_chunk>> \o Encode(Suffix(text, Len(end_tool_chunk)))
         ELSE <<Prefix(text, 1)>> \o Encode(Suffix(text, 1))

\* What the decoder reports for one token: the text it yields (none for a
\* header or control token) and the channel and recipient it is in
StreamText(delta, channel, recipient) ==
    [last_content_delta |-> delta, current_channel |-> channel,
     current_recipient |-> recipient]

\* A piece of chunk text with the decoder's report for its token
Event(text, delta, channel, recipient) ==
    [text |-> text, stream_text |-> StreamText(delta, channel, recipient)]

Events ==
    { Event("a", "a", ANALYSIS, None),
      Event("b", "b", ANALYSIS, None),
      Event("a", "a", FINAL, Some("")),
      Event("b", "b", FINAL, Some("")),
      Event("a", "a", COMMENTARY, Some("functions.f")),
      Event("b", "b", ANALYSIS, Some("functions.g")),
      Event("a", "a", FINAL, Some("functions.g")),
      Event("b", "b", COMMENTARY, None),
      Event("a", "a", "other", Some("g")),
      Event("b", "", COMMENTARY, Some("functions.f")) }

\* The end marker is a stop token: it closes the message and yields no text
MarkerEvent == Event(end_tool_chunk, "", COMMENTARY, None)

\* Text behind an end marker, and a second marker behind it
Tails ==
    { <<>>,
      << Event("z", "z", COMMENTARY, Some("functions.f")) >>,
      << Event("z", "z", FINAL, None), MarkerEvent >> }

RECURSIVE SeqsUpTo(_, _)
SeqsUpTo(S, n) ==
    IF n = 0 THEN {<<>>}
    ELSE LET shorter == SeqsUpTo(S, n - 1)
         IN  shorter \cup { Append(s, e) : s \in shorter, e \in S }

\* Inputs of a call: pieces, optionally an end marker and a tail behind it
PlainInputs == SeqsUpTo(Events, MaxChunkTokens)
Inputs ==
    PlainInputs
    \cup { h \o <<MarkerEvent>> \o t : h \in PlainInputs, t \in Tails }

\* Every channel and recipient the decoder can report with one token that
\* yields text, and with one that yields none
Channels == {ANALYSIS, COMMENTARY, FINAL, "other"}
Recipients == {None, Some(""), Some("functions.f"), Some("g")}
Fragments ==
    { Event("a", "a", c, r) : c \in Channels, r \in Recipients }
    \cup { Event("b", "", c, r) : c \in Channels, r \in Recipients }

\* Inputs of one token at most, optionally with the end marker behind it
FragmentInputs ==
    { <<>>, <<MarkerEvent>> }
    \cup { <<e>> : e \in Fragments } \cup { <<e, MarkerEvent>> : e \in Fragments }

\* self.parser.process(chunk_token) for the i-th token fed
Process(evs, i) == evs[i].stream_text

RECURSIVE MessagesFrom(_, _, _, _)
\* the messages the decoder forms from the reports i..n: a message is a run
\* of text-yielding tokens with one channel and recipient; open is the
\* message being formed, as a sequence of at most one message
MessagesFrom(evs, i, n, open) ==
    IF i > n THEN open
    ELSE LET st == Process(evs, i)
             d == st.last_content_delta
         IN  IF d = "" THEN open \o MessagesFrom(evs, i + 1, n, <<>>)
             ELSE IF /\ open # <<>>
                     /\ open[1].channel = st.current_channel
                     /\ open[1].recipient = st.current_recipient
             THEN MessagesFrom(evs, i + 1, n,
                      << [open[1] EXCEPT !.content[1].text = @ \o d] >>)
             ELSE open \o MessagesFrom(evs, i + 1, n,
                      << [channel |-> st.current_channel,
                          recipient |-> st.current_recipient,
                          content |-> << [text |-> d] >>] >>)

\* encoding.parse_messages_from_completion_tokens(tokens, role)
ParseMessagesFromCompletionTokens(tokens, evs) ==
    MessagesFrom(evs, 1, Len(tokens), <<>>)

RECURSIVE ChunkText(_)
\* the chunk the caller passes
ChunkText(evs) == IF evs = <<>> THEN "" ELSE Head(evs).text \o ChunkText(Tail(evs))

-----------------------------------------------------------------------------
(* HarmonyParser *)

\* The stream state of one parser instance
StreamState(st, buf, name) ==
    [state |-> st, arguments_buffer |-> buf, function_name_buffer |-> name]

\* __init__
InitialState == StreamState(NORMAL, <<>>, "")

\* Truncate without the cut at the end marker
Truncate_Whole(text) == text

\* the end-marker check of parse and parse_streaming: the text to process
Truncate(text) ==
    IF Contains(text, end_tool_chunk)
    THEN Prefix(text, Find(text, end_tool_chunk) + Len(end_tool_chunk))
    ELSE text

\* is_tool_call of parse
IsToolCallMessage(channel, recipient) ==
    \/ channel = COMMENTARY
    \/ (recipient # "" /\ Contains(recipient, FunctionsPrefix))

\* the body of the message loop of parse for one message
ParseMessage(result, message) ==
    LET recipient == OrEmpty(message.recipient)
        text == message.content[1].text
    IN  IF IsToolCallMessage(message.channel, recipient) /\ recipient # ""
        THEN [result EXCEPT !.tool_calls =
                 Append(@, [name |-> Replace(recipient, FunctionsPrefix, ""),
                            arguments |-> text])]
        ELSE IF message.channel = ANALYSIS
        THEN [result EXCEPT !.reasoning_content = Some(text)]
        ELSE IF message.channel = FINAL
        THEN [result EXCEPT !.content = Some(text)]
        ELSE result

RECURSIVE ParseMessages(_, _)
\* the message loop of parse
ParseMessages(result, parsed_messages) ==
    IF parsed_messages = <<>> THEN result
    ELSE ParseMessages(ParseMessage(result, Head(parsed_messages)),
                       Tail(parsed_messages))

\* parse(text); evs carries the decoder's reports for the tokens of the text
parse(text, evs) ==
    LET tokens == Encode(Truncate(text))
        parsed_messages == ParseMessagesFromCompletionTokens(tokens, evs)
        result == ParseMessages([content |-> None, tool_calls |-> <<>>,
                                 reasoning_content |-> None],
                                parsed_messages)
    IN  [result EXCEPT !.tool_calls = Some(@)]

\* parse_call that ends the stream when the text holds the end marker
parse_call_EndsStream(s, text, evs) ==
    [stream |-> IF Contains(text, end_tool_chunk)
                THEN [s EXCEPT !.state = END_STREAM] ELSE s,
     ret |-> [result |-> Some(parse(text, evs))]]

\* a call of parse(text) on an instance in stream state s: the returned
\* dict, and the stream state, which parse does not assign
parse_call(s, text, evs) ==
    [stream |-> s, ret |-> [result |-> Some(parse(text, evs))]]

\* _build_result
BuildResult(reasoning_contents, tool_calls, contents) ==
    [reasoning_content |-> OrNone(Join(reasoning_contents)),
     tool_calls |-> tool_calls,
     content |-> OrNone(Join(contents))]

\* a returned pair (result, completion flag)
Return(result, complete) == [result |-> result, complete |-> complete]

\* is_tool_call of parse_streaming
IsToolCall(current_channel, current_recipient) ==
    \/ current_channel = COMMENTARY
    \/ (current_recipient # "" /\ Contains(current_recipient, FunctionsPrefix))

\* ToolName without the replacement of the prefix
ToolName_KeepPrefix(current_recipient) == current_recipient

\* the function name taken from the recipient of a tool-call delta
ToolName(current_recipient) == Replace(current_recipient, FunctionsPrefix, "")

\* StartToolCall that also adds the delta to the content of the call
StartToolCall_AlsoContent(loc, content, current_recipient) ==
    [loc EXCEPT !.state = FOUND_ARGUMENTS,
                !.arguments_buffer = Append(@, content),
                !.function_name_buffer = ToolName(current_recipient),
                !.contents = Append(@, content)]

\* the is_tool_call branch of the token loop
StartToolCall(loc, content, current_recipient) ==
    [loc EXCEPT !.state = FOUND_ARGUMENTS,
                !.arguments_buffer = Append(@, content),
                !.function_name_buffer = ToolName(current_recipient)]

\* ProcessToken without the FOUND_ARGUMENTS branch
ProcessToken_NoLock(loc, stream_text) ==
    LET content == stream_text.last_content_delta
        current_channel == stream_text.current_channel
        current_recipient == OrEmpty(stream_text.current_recipient)
    IN  IF content = "" THEN loc
        ELSE IF IsToolCall(current_channel, current_recipient)
        THEN StartToolCall(loc, content, current_recipient)
        ELSE IF current_channel = ANALYSIS
        THEN [loc EXCEPT !.reasoning_contents = Append(@, content)]
        ELSE IF current_channel = FINAL
        THEN [loc EXCEPT !.contents = Append(@, content)]
        ELSE loc

\* ProcessToken that looks at the channel before is_tool_call
ProcessToken_ChannelFirst(loc, stream_text) ==
    LET content == stream_text.last_content_delta
        current_channel == stream_text.current_channel
        current_recipient == OrEmpty(stream_text.current_recipient)
    IN  IF content = "" THEN loc
        ELSE IF loc.state = FOUND_ARGUMENTS
        THEN [loc EXCEPT !.arguments_buffer = Append(@, content)]
        ELSE IF current_channel = ANALYSIS
        THEN [loc EXCEPT !.reasoning_contents = Append(@, content)]
        ELSE IF current_channel = FINAL
        THEN [loc EXCEPT !.contents = Append(@, content)]
        ELSE IF IsToolCall(current_channel, current_recipient)
        THEN StartToolCall(loc, content, current_recipient)
        ELSE loc

\* ProcessToken that puts a delta in front of the accumulated ones
ProcessToken_Prepend(loc, stream_text) ==
    LET content == stream_text.last_content_delta
        current_channel == stream_text.current_channel
        current_recipient == OrEmpty(stream_text.current_recipient)
    IN  IF content = "" THEN loc
        ELSE IF loc.state = FOUND_ARGUMENTS
        THEN [loc EXCEPT !.arguments_buffer = Append(@, content)]
        ELSE IF IsToolCall(current_channel, current_recipient)
        THEN StartToolCall(loc, content, current_recipient)
        ELSE IF current_channel = ANALYSIS
        THEN [loc EXCEPT !.reasoning_contents = <<content>> \o @]
        ELSE IF current_channel = FINAL
        THEN [loc EXCEPT !.contents = <<content>> \o @]
        ELSE loc

\* ProcessToken without the skip of empty deltas
ProcessToken_NoSkip(loc, stream_text) ==
    LET content == stream_text.last_content_delta
        current_channel == stream_text.current_channel
        current_recipient == OrEmpty(stream_text.current_recipient)
    IN  IF loc.state = FOUND_ARGUMENTS
        THEN [loc EXCEPT !.arguments_buffer = Append(@, content)]
        ELSE IF IsToolCall(current_channel, current_recipient)
        THEN StartToolCall(loc, content, current_recipient)
        ELSE IF current_channel = ANALYSIS
        THEN [loc EXCEPT !.reasoning_contents = Append(@, content)]
        ELSE IF current_channel = FINAL
        THEN [loc EXCEPT !.contents = Append(@, content)]
        ELSE loc

\* ProcessToken that takes a delta of any other channel as content
ProcessToken_OtherAsContent(loc, stream_text) ==
    LET content == stream_text.last_content_delta
        current_channel == stream_text.current_channel
        current_recipient == OrEmpty(stream_text.current_recipient)
    IN  IF content = "" THEN loc
        ELSE IF loc.state = FOUND_ARGUMENTS
        THEN [loc EXCEPT !.arguments_buffer = Append(@, content)]
        ELSE IF IsToolCall(current_channel, current_recipient)
        THEN StartToolCall(loc, content, current_recipient)
        ELSE IF current_channel = ANALYSIS
        THEN [loc EXCEPT !.reasoning_contents = Append(@, content)]
        ELSE [loc EXCEPT !.contents = Append(@, content)]

\* the body of the token loop of parse_streaming for one decoder report;
\* loc holds the stream state and the two accumulators of the call
ProcessToken(loc, stream_text) ==
    LET content == stream_text.last_content_delta
        current_channel == stream_text.current_channel
        current_recipient == OrEmpty(stream_text.current_recipient)
    IN  IF content = "" THEN loc
        ELSE IF loc.state = FOUND_ARGUMENTS
        THEN [loc EXCEPT !.arguments_buffer = Append(@, content)]
        ELSE IF IsToolCall(current_channel, current_recipient)
        THEN StartToolCall(loc, content, current_recipient)
        ELSE IF current_channel = ANALYSIS
        THEN [loc EXCEPT !.reasoning_contents = Append(@, content)]
        ELSE IF current_channel = FINAL
        THEN [loc EXCEPT !.contents = Append(@, content)]
        ELSE loc

RECURSIVE ProcessTokens(_, _, _, _)
\* the token loop of parse_streaming from the i-th token on
ProcessTokens(chunk_tokens, evs, i, loc) ==
    IF i > Len(chunk_tokens) THEN loc
    ELSE ProcessTokens(chunk_tokens, evs, i + 1,
                       ProcessToken(loc, Process(evs, i)))

\* Finish without the move to END_STREAM
Finish_KeepState(loc, end_stream_state) ==
    IF end_stream_state
    THEN LET tool_calls == << [name |-> loc.function_name_buffer,
                               arguments |-> Join(loc.arguments_buffer)] >>
         IN  [stream |-> StreamState(loc.state, <<>>, ""),
              ret |-> Return(Some(BuildResult(loc.reasoning_contents,
                                              Some(tool_calls), loc.contents)),
                             TRUE)]
    ELSE [stream |-> StreamState(loc.state, loc.arguments_buffer,
                                 loc.function_name_buffer),
          ret |-> Return(Some(BuildResult(loc.reasoning_contents, None,
                                          loc.contents)),
                         FALSE)]

\* Finish that goes back to NORMAL after the flush
Finish_Reset(loc, end_stream_state) ==
    IF end_stream_state
    THEN LET tool_calls == << [name |-> loc.function_name_buffer,
                               arguments |-> Join(loc.arguments_buffer)] >>
         IN  [stream |-> StreamState(NORMAL, <<>>, ""),
              ret |-> Return(Some(BuildResult(loc.reasoning_contents,
                                              Some(tool_calls), loc.contents)),
                             TRUE)]
    ELSE [stream |-> StreamState(loc.state, loc.arguments_buffer,
                                 loc.function_name_buffer),
          ret |-> Return(Some(BuildResult(loc.reasoning_contents, None,
                                          loc.contents)),
                         FALSE)]

\* Finish that leaves the flushed fragments in the buffer
Finish_KeepBuffer(loc, end_stream_state) ==
    IF end_stream_state
    THEN LET tool_calls == << [name |-> loc.function_name_buffer,
                               arguments |-> Join(loc.arguments_buffer)] >>
         IN  [stream |-> StreamState(END_STREAM, loc.arguments_buffer, ""),
              ret |-> Return(Some(BuildResult(loc.reasoning_contents,
                                              Some(tool_calls), loc.contents)),
                             TRUE)]
    ELSE [stream |-> StreamState(loc.state, loc.arguments_buffer,
                                 loc.function_name_buffer),
          ret |-> Return(Some(BuildResult(loc.reasoning_contents, None,
                                          loc.contents)),
                         FALSE)]

\* the end of parse_streaming: flush at the end marker, or the plain return
Finish(loc, end_stream_state) ==
    IF end_stream_state
    THEN LET tool_calls == << [name |-> loc.function_name_buffer,
                               arguments |-> Join(loc.arguments_buffer)] >>
         IN  [stream |-> StreamState(END_STREAM, <<>>, ""),
              ret |-> Return(Some(BuildResult(loc.reasoning_contents,
                                              Some(tool_calls), loc.contents)),
                             TRUE)]
    ELSE [stream |-> StreamState(loc.state, loc.arguments_buffer,
                                 loc.function_name_buffer),
          ret |-> Return(Some(BuildResult(loc.reasoning_contents, None,
                                          loc.contents)),
                         FALSE)]

\* the token loop and the end of parse_streaming
ParseChunk(s, chunk, evs) ==
    LET end_stream_state == Contains(chunk, end_tool_chunk)
        chunk_tokens == Encode(Truncate(chunk))
        loc == ProcessTokens(chunk_tokens, evs, 1,
                   [state |-> s.state,
                    arguments_buffer |-> s.arguments_buffer,
                    function_name_buffer |-> s.function_name_buffer,
                    reasoning_contents |-> <<>>,
                    contents |-> <<>>])
    IN  Finish(loc, end_stream_state)

\* parse_streaming without the END_STREAM check
parse_streaming_NoEndCheck(s, chunk, evs) == ParseChunk(s, chunk, evs)

\* parse_streaming whose END_STREAM check reports the stream not complete
parse_streaming_EndNotComplete(s, chunk, evs) ==
    IF s.state = END_STREAM
    THEN [stream |-> s, ret |-> Return(None, FALSE)]
    ELSE ParseChunk(s, chunk, evs)

\* parse_streaming(chunk) from stream state s; evs carries the decoder's
\* reports for the tokens of the chunk
parse_streaming(s, chunk, evs) ==
    IF s.state = END_STREAM
    THEN [stream |-> s, ret |-> Return(None, TRUE)]
    ELSE ParseChunk(s, chunk, evs)

\* handle_parse_streaming_end that never flushes
handle_parse_streaming_end_Never(s) ==
    [stream |-> s, ret |-> Return(None, FALSE)]

\* handle_parse_streaming_end that flushes in NORMAL instead of FOUND_ARGUMENTS
handle_parse_streaming_end_WrongState(s) ==
    IF s.state = NORMAL
    THEN parse_streaming(s, end_tool_chunk, <<MarkerEvent>>)
    ELSE [stream |-> s, ret |-> Return(None, FALSE)]

\* handle_parse_streaming_end without the state check
handle_parse_streaming_end_Always(s) ==
    parse_streaming(s, end_tool_chunk, <<MarkerEvent>>)

\* handle_parse_streaming_end() from stream state s
handle_parse_streaming_end(s) ==
    IF s.state = FOUND_ARGUMENTS
    THEN parse_streaming(s, end_tool_chunk, <<MarkerEvent>>)
    ELSE [stream |-> s, ret |-> Return(None, FALSE)]

-----------------------------------------------------------------------------
(* What the caller fed, described without the parser *)

\* the position of the first end marker among the pieces, 0 when there is none
FirstMarker(evs) ==
    IF \E i \in 1..Len(evs) : evs[i].text = end_tool_chunk
    THEN CHOOSE i \in 1..Len(evs) :
            /\ evs[i].text = end_tool_chunk
            /\ \A j \in 1..(i - 1) : evs[j].text # end_tool_chunk
    ELSE 0

\* the pieces in front of the first end marker
Front(evs) ==
    IF FirstMarker(evs) = 0 THEN evs ELSE SubSeq(evs, 1, FirstMarker(evs) - 1)

\* the pieces behind the first end marker
Behind(evs) ==
    IF FirstMarker(evs) = 0 THEN <<>> ELSE SubSeq(evs, FirstMarker(evs) + 1, Len(evs))

RECURSIVE Deltas(_)
\* the non-empty deltas of the pieces, in order
Deltas(evs) ==
    IF evs = <<>> THEN ""
    ELSE Head(evs).stream_text.last_content_delta \o Deltas(Tail(evs))

\* a fragment that section 4.1 of the specification classifies ToolCall
ToolCallFragment(st) ==
    \/ st.current_channel = "commentary"
    \/ \E r \in st.current_recipient :
          \E i \in 1..(Len(r) - 9) : SubSeq(r, i, i + 9) = "functions."

RECURSIVE TrackTool(_, _)
\* the recipient of the first tool-call delta and the deltas fed from it on
TrackTool(evs, t) ==
    IF evs = <<>> THEN t
    ELSE LET st == Head(evs).stream_text
             d == st.last_content_delta
         IN  TrackTool(Tail(evs),
                 IF d = "" THEN t
                 ELSE IF t.started THEN [t EXCEPT !.text = @ \o d]
                 ELSE IF ToolCallFragment(st)
                      THEN [started |-> TRUE, recipient |-> st.current_recipient,
                            text |-> d]
                      ELSE t)

\* the class section 4.1 of the specification gives a fragment
FragmentClass(st) ==
    IF ToolCallFragment(st) THEN "ToolCall"
    ELSE IF st.current_channel = "analysis" THEN "Reasoning"
    ELSE IF st.current_channel = "final" THEN "Final"
    ELSE "Dropped"

RECURSIVE Classified(_, _)
\* the non-empty deltas of class k in front of the first ToolCall fragment
Classified(evs, k) ==
    IF evs = <<>> THEN ""
    ELSE LET st == Head(evs).stream_text
             d == st.last_content_delta
         IN  IF d = "" THEN Classified(Tail(evs), k)
             ELSE IF ToolCallFragment(st) THEN ""
             ELSE (IF FragmentClass(st) = k THEN d ELSE "")
                      \o Classified(Tail(evs), k)

\* the pieces that yield text
Yielding(evs) ==
    { j \in 1..Len(evs) : evs[j].stream_text.last_content_delta # "" }

\* the channel and recipient reported with the pieces of the set at
Reports(evs, at) ==
    { [current_channel |-> evs[i].stream_text.current_channel,
       current_recipient |-> evs[i].stream_text.current_recipient] : i \in at }

\* what a call was given: the chunk, whether it holds an end marker, the
\* non-empty deltas in front of the first marker, their classes, the channel
\* and recipient reported with them and with the pieces that yield no text,
\* the deltas classified Reasoning and Final in front of the first ToolCall
\* delta, and the deltas behind the marker
InputSummary(evs) ==
    LET front == Front(evs)
        yielding == Yielding(front)
    IN  [chunk |-> ChunkText(evs),
         marker |-> FirstMarker(evs) # 0,
         deltas |-> Deltas(front),
         kinds |-> { FragmentClass(front[i].stream_text) : i \in yielding },
         reports |-> Reports(front, yielding),
         silent |-> Reports(front, (1..Len(front)) \ yielding),
         reasoning |-> Classified(front, "Reasoning"),
         final |-> Classified(front, "Final"),
         behind |-> Deltas(Behind(evs))]

NoInput == [chunk |-> "", marker |-> FALSE, deltas |-> "", kinds |-> {},
            reports |-> {}, silent |-> {}, reasoning |-> "", final |-> "", behind |-> ""]

\* a returned result that holds a tool_calls entry
HasEntry(r) ==
    \E res \in r.result : \E tc \in res.tool_calls : Len(tc) > 0

\* the tool_calls entries of a returned result
Entries(r) ==
    IF HasEntry(r) THEN TheValue(TheValue(r.result).tool_calls) ELSE <<>>

\* the argument text a call ends with: buffered, or flushed in its result
Held(r) ==
    IF HasEntry(r.ret) THEN Len(Entries(r.ret)[1].arguments)
    ELSE Len(Join(r.stream.arguments_buffer))

-----------------------------------------------------------------------------
(* The state machine *)

Current == StreamState(state, arguments_buffer, function_name_buffer)

NoReturn == [result |-> None]
NoTool == [started |-> FALSE, recipient |-> None, text |-> ""]

Init ==
    /\ state = InitialState.state
    /\ arguments_buffer = InitialState.arguments_buffer
    /\ function_name_buffer = InitialState.function_name_buffer
    /\ op = "idle"
    /\ ret = NoReturn
    /\ pre = InitialState
    /\ inp = NoInput
    /\ emitted = 0
    /\ completed = FALSE
    /\ tool = NoTool

\* a call of one of the two streaming methods, from the stream state Current
Called(name, r, evs) ==
    /\ Held(r) <= MaxBuffered
    /\ state' = r.stream.state
    /\ arguments_buffer' = r.stream.arguments_buffer
    /\ function_name_buffer' = r.stream.function_name_buffer
    /\ op' = name
    /\ ret' = r.ret
    /\ pre' = Current
    /\ inp' = IF name = "parse_streaming" THEN InputSummary(evs) ELSE NoInput
    /\ emitted' = IF HasEntry(r.ret) THEN emitted + 1 ELSE emitted
    /\ completed' = (completed \/ r.ret.complete)
    /\ tool' = IF state = END_STREAM THEN tool ELSE TrackTool(Front(evs), tool)

\* a call of parse_streaming(chunk) with one of the inputs
ParseStreamingOf(inputs) ==
    /\ op = "idle"
    /\ \E evs \in inputs :
          Called("parse_streaming",
                 parse_streaming(Current, ChunkText(evs), evs), evs)

\* a call of parse_streaming(chunk)
ParseStreaming == ParseStreamingOf(Inputs)

\* a call of handle_parse_streaming_end()
HandleParseStreamingEnd ==
    /\ op = "idle"
    /\ Called("handle_parse_streaming_end", handle_parse_streaming_end(Current), <<>>)

\* a call of parse(text) with one of the inputs
ParseOf(inputs) ==
    /\ op = "idle"
    /\ \E evs \in inputs :
          LET r == parse_call(Current, ChunkText(evs), evs)
          IN  /\ state' = r.stream.state
              /\ arguments_buffer' = r.stream.arguments_buffer
              /\ function_name_buffer' = r.stream.function_name_buffer
              /\ op' = "parse"
              /\ ret' = r.ret
              /\ pre' = Current
              /\ inp' = InputSummary(evs)
    /\ UNCHANGED <<emitted, completed, tool>>

\* a call of parse(text)
Parse == ParseOf(Inputs)

\* the caller takes the returned value and the next call can be made; the
\* record of the tool call fed is dropped once the stream has ended
TakeResult ==
    /\ op # "idle"
    /\ op' = "idle"
    /\ ret' = NoReturn
    /\ pre' = Current
    /\ inp' = NoInput
    /\ tool' = IF state = END_STREAM THEN NoTool ELSE tool
    /\ UNCHANGED <<state, arguments_buffer, function_name_buffer, emitted,
                   completed>>

Next == ParseStreaming \/ HandleParseStreamingEnd \/ Parse \/ TakeResult

Spec == Init /\ [][Next]_vars

\* The same machine fed one token at a time, with every channel and
\* recipient the decoder can report
StreamFragment == ParseStreamingOf(FragmentInputs)
ParseFragment == ParseOf(FragmentInputs)

NextFragments ==
    StreamFragment \/ HandleParseStreamingEnd \/ ParseFragment \/ TakeResult

SpecFragments == Init /\ [][NextFragments]_vars

\* ... with a caller that takes every result and, sooner or later, ends the
\* stream with handle_parse_streaming_end
SpecLive ==
    /\ SpecFragments
    /\ WF_vars(TakeResult)
    /\ SF_vars(HandleParseStreamingEnd)

-----------------------------------------------------------------------------
(* What the properties speak of *)

Streaming == {"parse_streaming", "handle_parse_streaming_end"}

\* the returned content and reasoning_content, "" when none
ContentOut == IF ret.result = None THEN "" ELSE OrEmpty(TheValue(ret.result).content)
ReasoningOut ==
    IF ret.result = None THEN "" ELSE OrEmpty(TheValue(ret.result).reasoning_content)

\* the argument text the call ended with: flushed in its result, or buffered
ArgumentsOut ==
    IF HasEntry(ret) THEN Entries(ret)[1].arguments ELSE Join(arguments_buffer)

\* every text the last call returned or left in the stream state
TextsHeld ==
    {ContentOut, ReasoningOut, function_name_buffer}
    \cup { arguments_buffer[i] : i \in 1..Len(arguments_buffer) }
    \cup { Entries(ret)[i].name : i \in 1..Len(Entries(ret)) }
    \cup { Entries(ret)[i].arguments : i \in 1..Len(Entries(ret)) }

\* the two texts have a character in common
SharesCharacter(t, u) ==
    \E i \in 1..Len(t) : \E j \in 1..Len(u) : SubSeq(t, i, i) = SubSeq(u, j, j)

\* the number of occurrences of the character c in t
Count(c, t) == Cardinality({ i \in 1..Len(t) : SubSeq(t, i, i) = c })

Characters == {"a", "b", "z"}

\* a recipient with the 'functions.' marker in front of it taken off
Stripped(recipient) ==
    LET r == OrEmpty(recipient)
    IN  IF Len(r) >= 10 /\ SubSeq(r, 1, 10) = "functions."
        THEN SubSeq(r, 11, Len(r)) ELSE r

\* the bucket a returned result, and the stream state left, put a text in
Bucket(r) ==
    IF r.stream.state = FOUND_ARGUMENTS \/ HasEntry(r.ret) THEN "ToolCall"
    ELSE IF TheValue(r.ret.result).reasoning_content # None THEN "Reasoning"
    ELSE IF TheValue(r.ret.result).content # None THEN "Final"
    ELSE "Dropped"

\* the bucket parse, and parse_streaming on a fresh parser, put the text "a"
\* in when the decoder reports it with the channel and recipient of rep
Fragment(rep) == << Event("a", "a", rep.current_channel, rep.current_recipient) >>
ParseBucket(rep) == Bucket(parse_call(InitialState, "a", Fragment(rep)))
StreamBucket(rep) == Bucket(parse_streaming(InitialState, "a", Fragment(rep)))

\* the result of a parse_streaming call that found nothing to return
Nothing == Return(Some(BuildResult(<<>>, None, <<>>)), FALSE)

\* the name of the tool call the last call returned or left pending
NameOut ==
    IF HasEntry(ret) THEN Entries(ret)[1].name ELSE function_name_buffer

\* the sequence or text t begins with u
StartsWith(t, u) == Len(u) <= Len(t) /\ SubSeq(t, 1, Len(u)) = u

Ended == StreamState("end_stream", <<>>, "")

\* the result that flushes the tool call pending in stream state s
Flushed(s) ==
    [result |-> {[reasoning_content |-> None,
                  tool_calls |-> {<< [name |-> s.function_name_buffer,
                                      arguments |-> Join(s.arguments_buffer)] >>},
                  content |-> None]},
     complete |-> TRUE]

-----------------------------------------------------------------------------
(* Properties *)

\* C1: a parse_streaming call made in END_STREAM, whatever its chunk, returns
\* (None, True) and leaves state, arguments_buffer and function_name_buffer
\* as they were.
C1_IdempotentAfterFinished ==
    (op = "parse_streaming" /\ pre.state = "end_stream") =>
        /\ ret = [result |-> None, complete |-> TRUE]
        /\ Current = pre

\* a parse_streaming call in END_STREAM whose chunk holds the end marker
C1_Witness ==
    /\ op = "parse_streaming"
    /\ pre.state = "end_stream"
    /\ inp.marker
    /\ ret.result = None

\* C2: at most one streaming call returns a tool_calls entry, and the call
\* that does is a parse_streaming call whose chunk holds the end marker or a
\* handle_parse_streaming_end call made in FOUND_ARGUMENTS.
C2_SingleToolCall ==
    /\ emitted <= 1
    /\ (op \in Streaming /\ HasEntry(ret)) =>
           \/ op = "parse_streaming" /\ inp.marker
           \/ op = "handle_parse_streaming_end" /\ pre.state = "found_arguments"

\* a call after the tool call was emitted, with an end marker, emits nothing
C2_Witness ==
    /\ emitted = 1
    /\ op = "parse_streaming"
    /\ inp.marker
    /\ inp.deltas # ""
    /\ ~HasEntry(ret)

\* C3: when the end marker arrives after a delta classified ToolCall, the
\* call that processes the marker returns one tool call whose name is the
\* recipient of the first ToolCall delta without 'functions.' and whose
\* arguments are the non-empty deltas from that delta up to the marker, in
\* order; it leaves both buffers empty, the state END_STREAM and returns the
\* completion flag true.
C3_ToolCallAssembled ==
    (op = "parse_streaming" /\ pre.state # "end_stream" /\ inp.marker
       /\ tool.started) =>
        /\ Entries(ret) = << [name |-> Stripped(tool.recipient),
                              arguments |-> tool.text] >>
        /\ ret.complete
        /\ Current = Ended

\* the tool call "f" with the arguments "ab", of which "a" came in an earlier
\* chunk and "b" with the marker
C3_Witness ==
    /\ op = "parse_streaming"
    /\ pre.state = "found_arguments"
    /\ inp.marker
    /\ inp.deltas = "b"
    /\ Entries(ret) = << [name |-> "f", arguments |-> "ab"] >>

\* C4: when the text given to parse_streaming or parse holds the end marker,
\* nothing behind the first marker reaches a result field or a buffer; a
\* parse_streaming call ends the stream, and one made in FOUND_ARGUMENTS
\* flushes exactly the buffered text and the deltas in front of the marker.
C4_MarkerTruncation ==
    (op \in {"parse_streaming", "parse"} /\ inp.marker) =>
        /\ \A t \in TextsHeld : ~SharesCharacter(t, inp.behind)
        /\ (op = "parse_streaming" /\ pre.state # "end_stream") => Current = Ended
        /\ (op = "parse_streaming" /\ pre.state = "found_arguments") =>
               Entries(ret) = << [name |-> pre.function_name_buffer,
                                  arguments |-> Join(pre.arguments_buffer)
                                                   \o inp.deltas] >>

\* a tool call flushed by a chunk that holds text behind the marker
C4_Witness ==
    /\ op = "parse_streaming"
    /\ pre.state = "found_arguments"
    /\ inp.marker
    /\ inp.behind # ""
    /\ inp.deltas # ""
    /\ HasEntry(ret)

\* C5: a parse_streaming call puts every character of the deltas it is fed
\* in at most one of content, reasoning_content and the argument text: for
\* each character, the occurrences in the three together are at most those
\* in the text buffered before plus the deltas fed.  (Summed over the calls
\* of a session, no text is both in the emitted arguments and in a returned
\* content or reasoning_content.)
C5_ChannelExclusivity ==
    (op = "parse_streaming" /\ pre.state # "end_stream") =>
        \A c \in Characters :
            Count(c, ContentOut) + Count(c, ReasoningOut) + Count(c, ArgumentsOut)
                <= Count(c, Join(pre.arguments_buffer)) + Count(c, inp.deltas)

\* one call that returns reasoning text and starts a tool call
C5_Witness ==
    /\ op = "parse_streaming"
    /\ pre.state = "normal"
    /\ state = "found_arguments"
    /\ ReasoningOut # ""
    /\ inp.kinds = {"Reasoning", "ToolCall"}

\* C6: from FOUND_ARGUMENTS on, every non-empty delta goes to the argument
\* text and nowhere else, whatever the decoder reports with it: a call made
\* in FOUND_ARGUMENTS returns no content and no reasoning_content and ends
\* with the buffered text followed by all its deltas, and a call that starts
\* the tool call ends with all the deltas from the first ToolCall delta on.
C6_ChannelLock ==
    /\ (op = "parse_streaming" /\ pre.state = "found_arguments") =>
           /\ ContentOut = "" /\ ReasoningOut = ""
           /\ ArgumentsOut = Join(pre.arguments_buffer) \o inp.deltas
           /\ ~inp.marker => function_name_buffer = pre.function_name_buffer
    /\ (op = "parse_streaming" /\ pre.state # "end_stream" /\ tool.started) =>
           ArgumentsOut = tool.text

\* deltas reported as reasoning and as final text, fed in FOUND_ARGUMENTS
C6_Witness ==
    /\ op = "parse_streaming"
    /\ pre.state = "found_arguments"
    /\ inp.kinds = {"Reasoning", "Final"}
    /\ state = "found_arguments"

\* C7: in FOUND_ARGUMENTS handle_parse_streaming_end and a parse_streaming
\* call whose chunk is the end marker alone return the same thing, the
\* pending tool call with the completion flag true, and leave the same
\* state: END_STREAM with both buffers empty.
C7_FlushEqualsMarker ==
    (/\ pre.state = "found_arguments"
     /\ \/ op = "handle_parse_streaming_end"
        \/ op = "parse_streaming" /\ inp.chunk = "<|call|>") =>
        /\ ret = Flushed(pre)
        /\ Current = Ended

\* a forced flush of two buffered fragments
C7_Witness ==
    /\ op = "handle_parse_streaming_end"
    /\ pre.state = "found_arguments"
    /\ Len(pre.arguments_buffer) >= 2
    /\ HasEntry(ret)

\* C8: outside FOUND_ARGUMENTS handle_parse_streaming_end returns
\* (None, False) and changes nothing.
C8_FlushNoOp ==
    (op = "handle_parse_streaming_end" /\ pre.state # "found_arguments") =>
        /\ ret = [result |-> None, complete |-> FALSE]
        /\ Current = pre

\* a flush asked for after the tool call was emitted
C8_Witness ==
    /\ op = "handle_parse_streaming_end"
    /\ pre.state = "end_stream"
    /\ emitted = 1
    /\ ret.result = None

\* C9: a parse_streaming result holds a tool_calls entry only if a delta of
\* the stream was classified ToolCall.
C9_EntryOnlyForToolCall ==
    (op = "parse_streaming" /\ HasEntry(ret)) => tool.started

\* C10 as claimed: once a call has reported completion, every later streaming
\* call reports completion.
C10_CompletionPermanent ==
    [][(completed /\ op' \in Streaming) => ret'.complete]_vars

\* C10: once a call has reported completion, every later parse_streaming
\* call returns (None, True) and every later handle_parse_streaming_end call
\* returns (None, False).
C10_StreamingCompletionPermanent ==
    [][/\ (completed /\ op' = "parse_streaming") =>
              ret' = [result |-> None, complete |-> TRUE]
       /\ (completed /\ op' = "handle_parse_streaming_end") =>
              ret' = [result |-> None, complete |-> FALSE]]_vars

\* a flush asked for after completion was reported, answered (None, False)
C10_Witness ==
    /\ completed
    /\ op = "handle_parse_streaming_end"
    /\ pre.state = "end_stream"
    /\ ~ret.complete

\* C11 as claimed: between calls function_name_buffer is non-empty exactly
\* when the state is FOUND_ARGUMENTS.
C11_NameIffCapturing ==
    (function_name_buffer # "") <=> (state = FOUND_ARGUMENTS)

\* C12: arguments_buffer is empty unless the state is FOUND_ARGUMENTS, and
\* while the state stays FOUND_ARGUMENTS a call only appends to it; the text
\* flushed at the end begins with what was buffered.
C12_BufferOnlyWhileCapturing ==
    /\ state # FOUND_ARGUMENTS => arguments_buffer = <<>>
    /\ (op \in Streaming /\ pre.state = FOUND_ARGUMENTS) =>
          IF state = FOUND_ARGUMENTS
          THEN StartsWith(arguments_buffer, pre.arguments_buffer)
          ELSE /\ HasEntry(ret)
               /\ StartsWith(Entries(ret)[1].arguments, Join(pre.arguments_buffer))

C12_Witness ==
    /\ op = "parse_streaming"
    /\ pre.state = FOUND_ARGUMENTS
    /\ state = FOUND_ARGUMENTS
    /\ pre.arguments_buffer # <<>>
    /\ Len(arguments_buffer) > Len(pre.arguments_buffer)

\* C13 as claimed: for every channel and recipient reported with a fragment,
\* parse and parse_streaming (in NORMAL) put the fragment in the same bucket,
\* and in both it is the tool-call bucket exactly when the channel is
\* commentary or the recipient holds 'functions.'.
C13_SameClassifier ==
    \A rep \in inp.reports :
        /\ ParseBucket(rep) = StreamBucket(rep)
        /\ (StreamBucket(rep) = "ToolCall") <=> ToolCallFragment(rep)

\* C14: in NORMAL, non-empty deltas reported in the analysis or final channel
\* with a recipient that holds 'functions.' start a tool call: the state
\* becomes FOUND_ARGUMENTS (END_STREAM if the chunk also holds the marker),
\* the deltas are the arguments, the function name is taken from the
\* recipient, and nothing goes to reasoning_content or content.
C14_RecipientBeforeChannel ==
    ( /\ op = "parse_streaming"
      /\ pre.state = NORMAL
      /\ inp.reports # {}
      /\ \A rep \in inp.reports :
            /\ rep.current_channel \in {ANALYSIS, FINAL}
            /\ ToolCallFragment(rep) )
    => /\ state = IF inp.marker THEN END_STREAM ELSE FOUND_ARGUMENTS
       /\ ArgumentsOut = inp.deltas
       /\ NameOut = Stripped(tool.recipient)
       /\ NameOut # ""
       /\ ReasoningOut = ""
       /\ ContentOut = ""

C14_Witness ==
    /\ op = "parse_streaming"
    /\ pre.state = NORMAL
    /\ state = FOUND_ARGUMENTS
    /\ inp.reports = {[current_channel |-> ANALYSIS,
                       current_recipient |-> Some("functions.g")]}
    /\ function_name_buffer = "g"
    /\ arguments_buffer = <<"b">>

\* C15: a parse_streaming call returns as reasoning_content and content the
\* deltas of that call classified Reasoning and Final, in the order fed, and
\* None where there were none; what earlier calls were fed is not in it.
C15_ResultOfThisCallOnly ==
    (op = "parse_streaming" /\ pre.state # END_STREAM)
    => /\ ret.result # None
       /\ TheValue(ret.result).reasoning_content =
             OrNone(IF pre.state = NORMAL THEN inp.reasoning ELSE "")
       /\ TheValue(ret.result).content =
             OrNone(IF pre.state = NORMAL THEN inp.final ELSE "")

C15_Witness ==
    /\ op = "parse_streaming"
    /\ pre.state = NORMAL
    /\ inp.reasoning = "ab"
    /\ TheValue(ret.result).reasoning_content = Some("ab")
    /\ TheValue(ret.result).content = None

\* C16: a call changes the state only from NORMAL to FOUND_ARGUMENTS, on a
\* non-empty delta classified ToolCall, or to END_STREAM, when the end
\* marker is processed; a chunk with the marker ends the stream from either
\* state; FOUND_ARGUMENTS never goes back to NORMAL and END_STREAM is never
\* left.
C16_Transitions ==
    /\ op = "parse" => state = pre.state
    /\ op \in Streaming =>
          \/ state = pre.state
          \/ /\ pre.state = NORMAL
             /\ state = FOUND_ARGUMENTS
             /\ "ToolCall" \in inp.kinds
          \/ /\ pre.state # END_STREAM
             /\ state = END_STREAM
             /\ inp.marker \/ op = "handle_parse_streaming_end"
    /\ (op = "parse_streaming" /\ pre.state # END_STREAM /\ inp.marker)
          => state = END_STREAM
    /\ (op = "parse_streaming" /\ pre.state = NORMAL /\ ~inp.marker
           /\ "ToolCall" \in inp.kinds)
          => state = FOUND_ARGUMENTS
    /\ pre.state = FOUND_ARGUMENTS => state # NORMAL
    /\ pre.state = END_STREAM => state = END_STREAM

C16_Witness ==
    /\ op = "parse_streaming"
    /\ pre.state = NORMAL
    /\ "ToolCall" \in inp.kinds
    /\ inp.marker
    /\ state = END_STREAM

\* C17: tokens whose delta is empty change nothing, whatever channel and
\* recipient are reported with them: a chunk of such tokens leaves the
\* stream state as it was and returns an empty result (with the end marker,
\* it flushes what was pending before the call), and a tool call is started
\* and named by the first non-empty tool-call delta only.
C17_EmptyDeltaSkipped ==
    /\ ( /\ op = "parse_streaming"
         /\ pre.state # END_STREAM
         /\ inp.silent # {}
         /\ inp.deltas = "" )
       => IF inp.marker
          THEN Current = Ended /\ ret = Flushed(pre)
          ELSE Current = pre /\ ret = Nothing
    /\ ( /\ op = "parse_streaming"
         /\ pre.state = NORMAL
         /\ inp.silent # {} )
       => /\ state = FOUND_ARGUMENTS => "ToolCall" \in inp.kinds
          /\ "ToolCall" \in inp.kinds => NameOut = Stripped(tool.recipient)
          /\ ArgumentsOut # "" => "ToolCall" \in inp.kinds

C17_Witness ==
    /\ op = "parse_streaming"
    /\ pre.state = NORMAL
    /\ \E rep \in inp.silent : ToolCallFragment(rep)
    /\ inp.deltas = ""
    /\ ~inp.marker
    /\ state = NORMAL
    /\ function_name_buffer = ""

\* C18: in NORMAL, non-empty deltas that match no rule of the classifier are
\* dropped: their text is in no field of the result and in neither buffer,
\* and without an end marker the stream state stays as it was.
C18_UnclassifiedDropped ==
    ( /\ op = "parse_streaming"
      /\ pre.state = NORMAL
      /\ inp.kinds = {"Dropped"} )
    => /\ ret.result # None
       /\ ContentOut = ""
       /\ ReasoningOut = ""
       /\ ArgumentsOut = ""
       /\ NameOut = ""
       /\ ~inp.marker => (Current = pre /\ ret = Nothing)

C18_Witness ==
    /\ op = "parse_streaming"
    /\ pre.state = NORMAL
    /\ inp.deltas = "a"
    /\ inp.reports = {[current_channel |-> "other", current_recipient |-> None]}
    /\ ret = Nothing
    /\ state = NORMAL

\* C19: a parse call leaves state, arguments_buffer and function_name_buffer
\* as they were, and returns what it returns on a fresh parser.
C19_ParseApartFromStream ==
    op = "parse"
    => /\ Current = pre
       /\ \A rep \in inp.reports :
             (inp.deltas = "a" /\ inp.silent = {})
             => Bucket([stream |-> InitialState, ret |-> ret]) = ParseBucket(rep)

C19_Witness ==
    /\ op = "parse"
    /\ pre.state = FOUND_ARGUMENTS
    /\ pre.arguments_buffer # <<>>
    /\ HasEntry(ret)
    /\ Current = pre

\* C20: in FOUND_ARGUMENTS a chunk with the end marker, and
\* handle_parse_streaming_end, end the stream and return the pending tool
\* call; when the caller goes on taking results and does not put off
\* handle_parse_streaming_end for ever, FOUND_ARGUMENTS leads to END_STREAM.
C20_CapturingLeadsToFinished ==
    /\ []( ( /\ op \in Streaming
             /\ pre.state = FOUND_ARGUMENTS
             /\ inp.marker \/ op = "handle_parse_streaming_end" )
           => /\ state = END_STREAM
              /\ ret.complete
              /\ HasEntry(ret)
              /\ Entries(ret)[1].name = pre.function_name_buffer
              /\ StartsWith(Entries(ret)[1].arguments,
                            Join(pre.arguments_buffer)) )
    /\ (state = FOUND_ARGUMENTS) ~> (state = END_STREAM)

C20_Witness ==
    /\ op = "handle_parse_streaming_end"
    /\ pre.state = FOUND_ARGUMENTS
    /\ pre.function_name_buffer = "f"
    /\ state = END_STREAM
    /\ ret.complete
    /\ Entries(ret) = << [name |-> "f", arguments |-> "aa"] >>

====
